---- MODULE Spec2Model ----
(***************************************************************************)
(* Model of the hackathon finder: the AgentLocation session               *)
(* (src/src/agents/agent_location.py) and the function it runs as a step, *)
(* get_location_numbers / search_hackathons                               *)
(* (src/src/functions/location_numbers.py).                               *)
(*                                                                         *)
(* Text.  A Python str is modelled as a sequence of tokens.  A token is a *)
(* word, a punctuation character or a single whitespace character, so     *)
(* that substring tests, split, strip, join and lower are computed on the *)
(* sequence the way Python computes them on the characters.  A dict is a  *)
(* record whose DOMAIN holds exactly the keys that are present.           *)
(***************************************************************************)
EXTENDS Integers, Sequences, FiniteSets, TLC

VARIABLES
    end,        \* AgentLocation.end: the termination flag
    locations,  \* AgentLocation.locations: the accumulated entries
    runPc,      \* position of AgentLocation.run: "waiting" or "returned"
    calls,      \* history: one entry per event handler invocation, in order
    last,       \* history: the collaborators' outcomes during the latest event
    fnPc,       \* position of one get_location_numbers invocation
    fnIn,       \* its parameters and the outcomes of its collaborators
    fnOut       \* what it computed

vars == <<end, locations, runPc, calls, last, fnPc, fnIn, fnOut>>
sessionVars == <<end, locations, runPc, calls, last>>
fnVars == <<fnPc, fnIn, fnOut>>

----------------------------------------------------------------------------
(* Bounds of the model *)

MaxEvents == 3      \* events delivered to one session
MaxShort == 2       \* length of the result lists drawn from RawResults
MaxLong == 12       \* length of the longest result list (exceeds the cap)

----------------------------------------------------------------------------
(* str operations *)

\* str.lower() on one token
LowerTok(t) ==
    CASE t = "Springfield" -> "springfield"
      [] t = "Illinois" -> "illinois"
      [] t = "USA" -> "usa"
      [] t = "Weimar" -> "weimar"
      [] t = "Germany" -> "germany"
      [] t = "New" -> "new"
      [] t = "York" -> "york"
      [] t = "Upcoming" -> "upcoming"
      [] t = "Hackathons" -> "hackathons"
      [] t = "Hackathon" -> "hackathon"
      [] t = "Near" -> "near"
      [] t = "You" -> "you"
      [] t = "TechCrunch" -> "techcrunch"
      [] t = "Disrupt" -> "disrupt"
      [] t = "DevFest" -> "devfest"
      [] t = "CodeJam" -> "codejam"
      [] t = "Meetup" -> "meetup"
      [] t = "Register" -> "register"
      [] t = "Now" -> "now"
      [] t = "Scheduled" -> "scheduled"
      [] t = "Sign" -> "sign"
      [] t = "Up" -> "up"
      [] t = "Events" -> "events"
      [] OTHER -> t

\* s.lower()
Lower(s) == [i \in 1..Len(s) |-> LowerTok(s[i])]

\* needle in hay
Contains(hay, needle) ==
    \E i \in 0..(Len(hay) - Len(needle)) :
        SubSeq(hay, i + 1, i + Len(needle)) = needle

\* hay.find(needle): the first offset at which needle occurs, -1 when none
Find(hay, needle) ==
    IF Contains(hay, needle)
    THEN CHOOSE i \in 0..(Len(hay) - Len(needle)) :
            /\ SubSeq(hay, i + 1, i + Len(needle)) = needle
            /\ \A j \in 0..(i - 1) : SubSeq(hay, j + 1, j + Len(needle)) # needle
    ELSE -1

Whitespace == {" ", "\t", "\n"}

RECURSIVE LStrip(_)
LStrip(s) == IF s # <<>> /\ Head(s) \in Whitespace THEN LStrip(Tail(s)) ELSE s

RECURSIVE RStrip(_)
RStrip(s) ==
    IF s # <<>> /\ s[Len(s)] \in Whitespace
    THEN RStrip(SubSeq(s, 1, Len(s) - 1))
    ELSE s

\* s.strip()
Strip(s) == RStrip(LStrip(s))

\* s.split(sep): the list of the pieces between the occurrences of sep
RECURSIVE Split(_, _)
Split(s, sep) ==
    LET i == Find(s, sep)
    IN IF i < 0
       THEN <<s>>
       ELSE <<SubSeq(s, 1, i)>> \o Split(SubSeq(s, i + Len(sep) + 1, Len(s)), sep)

\* sep.join(parts)
RECURSIVE Join(_, _)
Join(parts, sep) ==
    IF parts = <<>> THEN <<>>
    ELSE IF Len(parts) = 1 THEN parts[1]
    ELSE parts[1] \o sep \o Join(Tail(parts), sep)

\* set(list)
ToSet(seq) == {seq[i] : i \in 1..Len(seq)}

\* d.get(key, default)
Get(d, key, default) == IF key \in DOMAIN d THEN d[key] ELSE default

\* {}
EmptyDict == <<>>

\* d[key] = value
SetItem(d, key, value) ==
    [k \in DOMAIN d \cup {key} |-> IF k = key THEN value ELSE d[k]]

\* s[:n]
Take(s, n) == SubSeq(s, 1, IF n < Len(s) THEN n ELSE Len(s))

\* str(year)
YearStr(year) == <<ToString(year)>>

\* f"{x:.2f}" for a coordinate x given in thousandths of a degree: the sign,
\* the whole degrees, the point and two digits, rounded to the nearest
\* hundredth
Fmt2(x) ==
    LET a == IF x < 0 THEN -x ELSE x
        h == (a + 5) \div 10
    IN (IF x < 0 THEN <<"-">> ELSE <<>>)
       \o <<ToString(h \div 100), ".", ToString((h \div 10) % 10), ToString(h % 10)>>

Quote == "\""

----------------------------------------------------------------------------
(* GeoResolver: search_hackathons, reverse geocoding *)

\* x or y or z over address.get(...): the first value that is present and
\* not empty; the empty sequence stands for a falsy result (None or "")
FirstTruthy(address, keys) ==
    IF \E i \in 1..Len(keys) : Get(address, keys[i], <<>>) # <<>>
    THEN LET i == CHOOSE i \in 1..Len(keys) :
                    /\ Get(address, keys[i], <<>>) # <<>>
                    /\ \A j \in 1..(i - 1) : Get(address, keys[j], <<>>) = <<>>
         IN address[keys[i]]
    ELSE <<>>

\* [p for p in [city, state, country] if p]
LocationParts(address) ==
    LET city == FirstTruthy(address, <<"city", "town", "village">>)
        state == Get(address, "state", <<>>)
        country == Get(address, "country", <<>>)
    IN SelectSeq(<<city, state, country>>, LAMBDA p : p # <<>>)

\* the coordinate label of lines 46-47 and 51-52
CoordinateFallback(lat, lng) ==
    LET location_string == Fmt2(lat) \o <<",", " ">> \o Fmt2(lng)
    IN [resolved |-> FALSE,
        location_parts |-> <<>>,
        location_string |-> location_string,
        search_locations |-> <<location_string>>]

\* the body of the try block, lines 30-48: raised is TRUE when the block
\* leaves by an exception
GeoTry(geo, lat, lng) ==
    IF geo.kind = "exception"
    THEN [raised |-> TRUE]
    ELSE IF geo.status = 200
    THEN IF geo.body.type # "object"
         THEN [raised |-> TRUE]   \* json() fails, or the body has no get()
         ELSE LET address == Get(geo.body.fields, "address", EmptyDict)
                  location_parts == LocationParts(address)
              IN [raised |-> FALSE,
                  place |-> [resolved |-> TRUE,
                             location_parts |-> location_parts,
                             location_string |-> Join(location_parts, <<",", " ">>),
                             search_locations |->
                                 [i \in 1..Len(location_parts) |->
                                     <<Quote>> \o location_parts[i] \o <<Quote>>]]]
    ELSE [raised |-> FALSE, place |-> CoordinateFallback(lat, lng)]

\* GeoResolve without the except clause: the exception leaves the block
GeoResolveUncaught(geo, lat, lng) == GeoTry(geo, lat, lng)

\* lines 28-52: try / except Exception
GeoResolve(geo, lat, lng) ==
    LET t == GeoTry(geo, lat, lng)
    IN IF t.raised
       THEN [raised |-> FALSE, place |-> CoordinateFallback(lat, lng)]
       ELSE t

----------------------------------------------------------------------------
(* QueryBuilder: search_hackathons, lines 55-62 *)

Lit(word) == <<Quote, word, Quote>>
Phrase2(w1, w2) == <<Quote, w1, " ", w2, Quote>>
Or == <<" ", "OR", " ">>
And == <<" ", "AND", " ">>

SearchQuery(search_locations, current_year) ==
    <<"(">> \o Lit("hackathon") \o Or \o Phrase2("coding", "competition") \o Or
        \o Phrase2("tech", "conference") \o Or \o Phrase2("developer", "event")
        \o <<")">> \o And
    \o <<"(">> \o Join(search_locations, Or) \o <<")">> \o And
    \o <<"(", "(", Quote>> \o YearStr(current_year) \o <<Quote>> \o Or
        \o <<Quote>> \o YearStr(current_year + 1) \o <<Quote, ")">> \o Or
        \o Lit("upcoming") \o Or \o Lit("scheduled") \o <<")">> \o And
    \o <<"(">> \o Phrase2("registration", "open") \o Or \o Phrase2("register", "now")
        \o Or \o Phrase2("sign", "up") \o <<")">> \o <<" ">>
    \o <<"-">> \o Lit("past") \o <<" ", "-">> \o Lit("completed")
        \o <<" ", "-">> \o Lit("ended") \o <<" ", "-">> \o Lit("archive")

----------------------------------------------------------------------------
(* ResultFilter: search_hackathons, lines 83-143 *)

GenericPhrases ==
    { <<"upcoming", " ", "hackathons">>, <<"hackathon", " ", "list">>,
      <<"events", " ", "near">>, <<"find", " ", "hackathons">>,
      <<"hackathon", " ", "calendar">>, <<"all", " ", "events">> }

RegistrationPhrases ==
    { <<"register", " ", "now">>, <<"registration", " ", "open">>,
      <<"sign", " ", "up">>, <<"join", " ", "now">>,
      <<"participate">>, <<"apply", " ", "now">> }

\* set(location_string.lower().split(", "))
LocationTerms(location_string) == ToSet(Split(Lower(location_string), <<",", " ">>))

\* f"{title} {snippet} {raw_content}" of the lowercased fields
Content(result) ==
    Lower(Get(result, "title", <<>>)) \o <<" ">>
        \o Lower(Get(result, "snippet", <<>>)) \o <<" ">>
        \o Lower(Get(result, "raw_content", <<>>))

\* the condition of line 117
Accepts(result, location_terms, current_year) ==
    LET title == Lower(Get(result, "title", <<>>))
        content == Content(result)
        location_match == \E term \in location_terms : Contains(content, Lower(term))
        has_date == \E year \in current_year..(current_year + 1) :
                        Contains(content, YearStr(year))
        is_upcoming == Contains(content, <<"upcoming">>) \/ Contains(content, <<"scheduled">>)
        is_specific_event == ~ \E generic \in GenericPhrases : Contains(title, generic)
        has_registration == \E term \in RegistrationPhrases : Contains(content, term)
    IN location_match /\ is_specific_event /\ (has_date \/ is_upcoming) /\ has_registration

Separators == <<":", "|", "-", "EN DASH">>

\* the loop of lines 120-122 over the separators that remain
RECURSIVE CleanWith(_, _)
CleanWith(clean_title, separators) ==
    IF separators = <<>> THEN clean_title
    ELSE LET separator == <<Head(separators)>>
         IN CleanWith(IF Contains(clean_title, separator)
                      THEN Strip(Split(clean_title, separator)[1])
                      ELSE clean_title,
                      Tail(separators))

\* lines 119-122
CleanTitle(result) == CleanWith(Get(result, "title", <<>>), Separators)

\* the loop of lines 86-136: the accepted results, each with its title
\* replaced by the cleaned title, in the order met
RECURSIVE FilterResults(_, _, _)
FilterResults(results, location_terms, current_year) ==
    IF results = <<>> THEN <<>>
    ELSE LET result == Head(results)
             rest == FilterResults(Tail(results), location_terms, current_year)
         IN IF Accepts(result, location_terms, current_year)
            THEN <<SetItem(result, "title", CleanTitle(result))>> \o rest
            ELSE rest

MaxFinal == 10

\* FinalResults with the slice one too long
FinalResultsOffByOne(filtered_results) == Take(filtered_results, MaxFinal + 1)

\* line 138
FinalResults(filtered_results) == Take(filtered_results, MaxFinal)

----------------------------------------------------------------------------
(* search_hackathons and get_location_numbers *)

\* the body of the try block, lines 67-146
SearchTry(search, place, current_year) ==
    IF search.kind = "exception"
    THEN [raised |-> TRUE]
    ELSE IF search.status = 200
    THEN IF search.body.type # "object"
         THEN [raised |-> TRUE]   \* json() fails, or the body has no get()
         ELSE LET results == Get(search.body.fields, "results", <<>>)
                  location_terms == LocationTerms(place.location_string)
                  filtered_results == FilterResults(results, location_terms, current_year)
              IN [raised |-> FALSE,
                  filtered |-> TRUE,
                  results |-> results,
                  location_terms |-> location_terms,
                  filtered_results |-> filtered_results,
                  value |-> FinalResults(filtered_results)]
    ELSE [raised |-> FALSE, filtered |-> FALSE, value |-> <<>>]

\* lines 65-149: try / except Exception
SearchCall(search, place, current_year) ==
    LET t == SearchTry(search, place, current_year)
    IN IF t.raised
       THEN [raised |-> FALSE, filtered |-> FALSE, value |-> <<>>]
       ELSE t

\* search_hackathons(lat, lng) in an environment env: whether the API key is
\* set, the outcome of the geocoding call, the outcome of the search call
\* and the current year.  The record keeps what was computed on the way.
search_hackathons(lat, lng, env) ==
    IF ~ env.api_key
    THEN [raised |-> FALSE, geocoded |-> FALSE, value |-> <<>>]
    ELSE LET g == GeoResolve(env.geo, lat, lng)
         IN IF g.raised
            THEN [raised |-> TRUE]
            ELSE LET search_query == SearchQuery(g.place.search_locations, env.year)
                     s == SearchCall(env.search, g.place, env.year)
                 IN IF s.raised
                    THEN [raised |-> TRUE]
                    ELSE [raised |-> FALSE,
                          geocoded |-> TRUE,
                          place |-> g.place,
                          search_query |-> search_query,
                          search |-> s,
                          value |-> s.value]

\* HackathonInfo(...), lines 160-165; the optional date is the set of its values
HackathonInfo(result, lat, lng) ==
    [name |-> Get(result, "title", <<"Unnamed", " ", "Hackathon">>),
     description |-> Get(result, "snippet", <<"No", " ", "description", " ", "available">>),
     location |-> <<"Near", " ">> \o Fmt2(lat) \o <<",", " ">> \o Fmt2(lng),
     date |-> IF "published_date" \in DOMAIN result THEN {result.published_date} ELSE {}]

\* get_location_numbers with no exception handling on the way: a failure of
\* either collaborator call reaches the caller
get_location_numbers_unguarded(lat, lng, env) ==
    IF env.api_key /\ (GeoTry(env.geo, lat, lng).raised
                        \/ SearchTry(env.search, CoordinateFallback(lat, lng), env.year).raised)
    THEN [raised |-> TRUE]
    ELSE LET search_results == search_hackathons(lat, lng, env)
         IN [raised |-> FALSE,
             hackathons |-> [i \in 1..Len(search_results.value) |->
                                HackathonInfo(search_results.value[i], lat, lng)],
             trace |-> search_results]

\* get_location_numbers(params), lines 152-171: try / except Exception
get_location_numbers(lat, lng, env) ==
    LET search_results == search_hackathons(lat, lng, env)
    IN IF search_results.raised
       THEN [raised |-> FALSE, hackathons |-> <<>>, trace |-> search_results]
       ELSE [raised |-> FALSE,
             hackathons |-> [i \in 1..Len(search_results.value) |->
                                HackathonInfo(search_results.value[i], lat, lng)],
             trace |-> search_results]

----------------------------------------------------------------------------
(* The inputs: coordinates, collaborator outcomes, search results *)

\* coordinates in thousandths of a degree
Coordinates == { <<37774, -122414>>, <<52516, 13377>> }

Years == {2025, 2026}

Titles ==
    { <<"Springfield", " ", "Hackathon", " ", "2026">>,
      <<"TechCrunch", ":", " ", "Disrupt", " ", "Hackathon">>,
      <<"Upcoming", " ", "Hackathons", " ", "Near", " ", "You">>,
      <<"DevFest", " ", "-", " ", "Illinois", " ", "|", " ", "Meetup", ":", " ", "USA">>,
      <<" ", "CodeJam", " ">>,
      <<"Weimar", " ", "EN DASH", " ", "Hackathon">>,
      <<>> }

Snippets ==
    { <<"Register", " ", "Now", " ", "in", " ", "Springfield">>,
      <<"The", " ", "event", " ", "has", " ", "ended", ",", " ", "sign", " ", "up", " ", "2026">>,
      <<"apply", " ", "now", " ", "near", " ", "37", ".", "7", "7">>,
      <<"Sign">> }

RawContents ==
    { <<"Scheduled", " ", "for", " ", "2027", ",", " ", "Weimar", ",", " ", "Germany">>,
      <<"upcoming", " ", "in", " ", "New", " ", "York", ",", " ", "registration", " ", "open">>,
      <<"up", " ", "to", " ", "2026", " ", "Illinois">>,
      <<"archive", " ", "2024", " ", "participate", " ", "USA">> }

Dates == { <<"2026-05-01">> }

\* a value that may be absent: the empty set, or the set of the one value
Opt(S) == {{}} \cup {{x} : x \in S}

\* a search result: a dict holding the keys whose value is given
RawResult(title, snippet, raw_content, published_date) ==
    LET given == [title |-> title, snippet |-> snippet,
                  raw_content |-> raw_content, published_date |-> published_date]
        keys == {k \in DOMAIN given : given[k] # {}}
    IN [k \in keys |-> CHOOSE x \in given[k] : TRUE]

RawResults ==
    { RawResult(t, s, r, d) :
        t \in Opt(Titles), s \in Opt(Snippets), r \in Opt(RawContents), d \in Opt(Dates) }

SpringfieldEvent ==
    [title |-> <<"TechCrunch", ":", " ", "Disrupt", " ", "Hackathon">>,
     snippet |-> <<"Register", " ", "Now", " ", "in", " ", "Springfield">>,
     raw_content |-> <<"Scheduled", " ", "for", " ", "2027", ",", " ", "Weimar", ",", " ", "Germany">>,
     published_date |-> <<"2026-05-01">>]

IllinoisEvent ==
    [title |-> <<"DevFest", " ", "-", " ", "Illinois", " ", "|", " ", "Meetup", ":", " ", "USA">>,
     snippet |-> <<"Sign">>,
     raw_content |-> <<"up", " ", "to", " ", "2026", " ", "Illinois">>]

ListingPage ==
    [title |-> <<"Upcoming", " ", "Hackathons", " ", "Near", " ", "You">>,
     snippet |-> <<"Register", " ", "Now", " ", "in", " ", "Springfield">>]

CoordinateEvent ==
    [title |-> <<" ", "CodeJam", " ">>,
     snippet |-> <<"apply", " ", "now", " ", "near", " ", "37", ".", "7", "7">>,
     raw_content |-> <<"upcoming", " ", "in", " ", "New", " ", "York", ",", " ", "registration", " ", "open">>]

\* the sequences over S of length lo..hi
SeqsOf(S, lo, hi) == UNION {[1..n -> S] : n \in lo..hi}

ShortLists == SeqsOf({SpringfieldEvent, IllinoisEvent, ListingPage, CoordinateEvent}, 0, MaxShort)
LongLists == SeqsOf({SpringfieldEvent, ListingPage}, MaxShort + 1, MaxLong)

\* outcomes of the reverse geocoding call
Undecodable == [type |-> "undecodable"]
GeoOk(address) ==
    [kind |-> "response", status |-> 200,
     body |-> [type |-> "object", fields |-> [address |-> address]]]
GeoSpringfield ==
    GeoOk([city |-> <<"Springfield">>, state |-> <<"Illinois">>, country |-> <<"USA">>])
GeoWeimar ==
    GeoOk([town |-> <<"Weimar">>, country |-> <<"Germany">>, county |-> <<"Weimar">>])
GeoNewYork ==
    GeoOk([city |-> <<>>, village |-> <<"New", " ", "York">>, country |-> <<"USA">>])
GeoNoAddress ==
    [kind |-> "response", status |-> 200,
     body |-> [type |-> "object",
               fields |-> [error |-> <<"Unable", " ", "to", " ", "geocode">>]]]
GeoMalformed == [kind |-> "response", status |-> 200, body |-> Undecodable]
GeoArray == [kind |-> "response", status |-> 200, body |-> [type |-> "array"]]
GeoUnavailable == [kind |-> "response", status |-> 503, body |-> Undecodable]
GeoException == [kind |-> "exception"]

GeoOutcomes ==
    { GeoSpringfield, GeoWeimar, GeoNewYork, GeoNoAddress,
      GeoMalformed, GeoArray, GeoUnavailable, GeoException }

\* outcomes of the search provider call
SearchOk(results) ==
    [kind |-> "response", status |-> 200,
     body |-> [type |-> "object", fields |-> [results |-> results]]]
SearchNoResults ==
    [kind |-> "response", status |-> 200,
     body |-> [type |-> "object", fields |-> [answer |-> <<>>]]]
SearchMalformed == [kind |-> "response", status |-> 200, body |-> Undecodable]
SearchRefused == [kind |-> "response", status |-> 401, body |-> Undecodable]
SearchException == [kind |-> "exception"]

SearchFailures == {SearchNoResults, SearchMalformed, SearchRefused, SearchException}

Env(api_key, geo, search, year) ==
    [api_key |-> api_key, geo |-> geo, search |-> search, year |-> year]

\* the environments one get_location_numbers invocation is checked in
FnEnvs ==
    { Env(TRUE, g, SearchOk(<<r>>), y) : g \in GeoOutcomes, r \in RawResults, y \in Years }
    \cup { Env(k, g, SearchOk(l), 2026) : k \in BOOLEAN, g \in GeoOutcomes, l \in ShortLists }
    \cup { Env(TRUE, GeoSpringfield, SearchOk(l), 2026) : l \in LongLists }
    \cup { Env(k, g, f, 2026) : k \in BOOLEAN, g \in GeoOutcomes, f \in SearchFailures }

FnInputs == { [lat |-> c[1], lng |-> c[2], env |-> e] : c \in Coordinates, e \in FnEnvs }

\* the environments the session's location events run in
SessionEnvs ==
    { Env(TRUE, g, s, 2026) :
        g \in {GeoSpringfield, GeoMalformed, GeoUnavailable, GeoException},
        s \in {SearchOk(<<SpringfieldEvent, ListingPage, CoordinateEvent>>),
               SearchMalformed, SearchRefused, SearchException} }
    \cup { Env(FALSE, GeoSpringfield, SearchOk(<<SpringfieldEvent>>), 2026) }

----------------------------------------------------------------------------
(* One invocation of get_location_numbers *)

NoOutput == [raised |-> FALSE, hackathons |-> <<>>, trace |-> [raised |-> FALSE]]
NoInput == [lat |-> 0, lng |-> 0, env |-> Env(FALSE, GeoException, SearchException, 2026)]

FnInit ==
    /\ end = FALSE /\ locations = <<>> /\ runPc = "waiting"
    /\ calls = <<>> /\ last = [op |-> "none"]
    /\ fnPc = "start"
    /\ fnIn \in FnInputs
    /\ fnOut = NoOutput

FnCall ==
    /\ fnPc = "start"
    /\ fnOut' = get_location_numbers(fnIn.lat, fnIn.lng, fnIn.env)
    /\ fnPc' = "done"
    /\ UNCHANGED <<fnIn, sessionVars>>

FnNext == FnCall

FnSpec == FnInit /\ [][FnNext]_vars

----------------------------------------------------------------------------
(* The session: AgentLocation *)

\* __init__, lines 16-18
Init ==
    /\ end = FALSE
    /\ locations = <<>>
    /\ runPc = "waiting"
    /\ calls = <<>>
    /\ last = [op |-> "none"]
    /\ fnPc = "idle" /\ fnIn = NoInput /\ fnOut = NoOutput

\* agent.step(get_location_numbers, ..., start_to_close_timeout=30s), lines
\* 25-29: the function's result, or a failure when the step does not complete
AgentStep(lat, lng, env, step) ==
    IF step = "failed"
    THEN [raised |-> TRUE]
    ELSE get_location_numbers(lat, lng, env)

\* Location swallowing the failure of the step: it records and returns []
LocationSwallow(lat, lng, env, step) ==
    /\ Len(calls) < MaxEvents
    /\ \E response \in {AgentStep(lat, lng, env, step)} :
          \E hackathons \in {IF response.raised THEN <<>> ELSE response.hackathons} :
            /\ last' = [op |-> "location", lat |-> lat, lng |-> lng, env |-> env,
                        step |-> step, response |-> response]
            /\ locations' = Append(locations,
                                   [lat |-> lat, lng |-> lng, hackathons |-> hackathons])
            /\ calls' = Append(calls, [op |-> "location", lat |-> lat, lng |-> lng,
                                       outcome |-> "returned", value |-> hackathons])
    /\ UNCHANGED <<end, runPc, fnVars>>

\* Location refusing to accumulate once the session is terminated
LocationWhileActive(lat, lng, env, step) ==
    /\ Len(calls) < MaxEvents
    /\ \E response \in {AgentStep(lat, lng, env, step)} :
          /\ last' = [op |-> "location", lat |-> lat, lng |-> lng, env |-> env,
                      step |-> step, response |-> response]
          /\ IF response.raised
             THEN /\ locations' = locations
                  /\ calls' = Append(calls, [op |-> "location", lat |-> lat, lng |-> lng,
                                             outcome |-> "raised"])
             ELSE /\ locations' = IF end THEN locations
                                  ELSE Append(locations,
                                              [lat |-> lat, lng |-> lng,
                                               hackathons |-> response.hackathons])
                  /\ calls' = Append(calls, [op |-> "location", lat |-> lat, lng |-> lng,
                                             outcome |-> "returned",
                                             value |-> response.hackathons])
    /\ UNCHANGED <<end, runPc, fnVars>>

\* the location event handler, lines 20-42
Location(lat, lng, env, step) ==
    /\ Len(calls) < MaxEvents
    /\ \E response \in {AgentStep(lat, lng, env, step)} :
          /\ last' = [op |-> "location", lat |-> lat, lng |-> lng, env |-> env,
                      step |-> step, response |-> response]
          /\ IF response.raised
             THEN /\ locations' = locations
                  /\ calls' = Append(calls, [op |-> "location", lat |-> lat, lng |-> lng,
                                             outcome |-> "raised"])
             ELSE /\ locations' = Append(locations,
                                         [lat |-> lat, lng |-> lng,
                                          hackathons |-> response.hackathons])
                  /\ calls' = Append(calls, [op |-> "location", lat |-> lat, lng |-> lng,
                                             outcome |-> "returned",
                                             value |-> response.hackathons])
    /\ UNCHANGED <<end, runPc, fnVars>>

\* End flipping the flag instead of setting it
EndToggle ==
    /\ Len(calls) < MaxEvents
    /\ end' = ~ end
    /\ calls' = Append(calls, [op |-> "end", outcome |-> "returned",
                               value |-> [end |-> TRUE]])
    /\ last' = [op |-> "end"]
    /\ UNCHANGED <<locations, runPc, fnVars>>

\* the end event handler, lines 44-48
End ==
    /\ Len(calls) < MaxEvents
    /\ end' = TRUE
    /\ calls' = Append(calls, [op |-> "end", outcome |-> "returned",
                               value |-> [end |-> TRUE]])
    /\ last' = [op |-> "end"]
    /\ UNCHANGED <<locations, runPc, fnVars>>

\* the wait condition negated
RunConditionNegated == ~ end

\* the condition run waits for, line 52
RunCondition == end

\* run, lines 50-53: returns once the condition holds
RunReturn ==
    /\ runPc = "waiting"
    /\ RunCondition
    /\ runPc' = "returned"
    /\ UNCHANGED <<end, locations, calls, last, fnVars>>

LocationEvent ==
    \E c \in Coordinates, env \in SessionEnvs, step \in {"completed", "failed"} :
        Location(c[1], c[2], env, step)

Next == LocationEvent \/ End \/ RunReturn

Spec == Init /\ [][Next]_vars

\* the runtime resumes a task whose wait condition holds
FairSpec == Spec /\ WF_vars(RunReturn)

----------------------------------------------------------------------------
(* Properties of the session *)

LastCall == calls[Len(calls)]

\* this step is an event handler invocation of the given kind
EventStep(op) == Len(calls') = Len(calls) + 1 /\ calls'[Len(calls')].op = op

\* i < j < k index three handler invocations
Ordered(i, j, k) == i < j /\ j < k

\* the geocoding call of this environment is made and fails
GeoFailed(env) ==
    /\ env.api_key
    /\ \/ env.geo.kind = "exception"
       \/ env.geo.status # 200
       \/ env.geo.body.type # "object"

\* the search call of this environment fails
SearchFailed(env) ==
    \/ env.search.kind = "exception"
    \/ env.search.status # 200

\* C1: whatever the outcome of the geocoding call and of the search call, and
\* with or without the API key, a location() whose step completes returns a
\* list to its caller and does not raise.
C1_NeverRaises ==
    (last.op = "location" /\ last.step = "completed") =>
        /\ LastCall.op = "location"
        /\ LastCall.outcome = "returned"
        /\ DOMAIN LastCall.value = 1..Len(LastCall.value)

C1_Witness ==
    /\ Len(calls) = 3
    /\ \A i \in 1..3 : calls[i].op = "location" /\ calls[i].outcome = "returned"
    /\ last.step = "completed"
    /\ last.env.geo = GeoMalformed
    /\ last.env.search = SearchException
    /\ LastCall.value = <<>>

\* C2: terminated starts false, changes only from false to true and only in
\* an end(); every end() returns the acknowledgment {end: true}, and an end()
\* in a terminated session leaves the session state as it was.
C2_TerminatedOnce ==
    /\ end = FALSE
    /\ [][ /\ (end' # end) => (~ end /\ end' /\ EventStep("end"))
           /\ EventStep("end") =>
                /\ end'
                /\ calls'[Len(calls')].outcome = "returned"
                /\ calls'[Len(calls')].value = [end |-> TRUE]
           /\ (EventStep("end") /\ end) => UNCHANGED <<end, locations, runPc>> ]_vars

C2_Witness ==
    /\ end
    /\ \E i, j \in 1..Len(calls) :
          i < j /\ calls[i].op = "end" /\ calls[j].op = "end"
    /\ \E k \in 1..Len(calls) : calls[k].op = "location"

\* C3: run has not returned while terminated is false, and once terminated
\* is true run eventually returns, whatever events follow.
C3_RunLoop ==
    /\ [](runPc = "returned" => end)
    /\ (end ~> (runPc = "returned"))

C3_Witness ==
    /\ runPc = "returned"
    /\ \E i, j, k \in 1..Len(calls) :
          /\ Ordered(i, j, k)
          /\ calls[i].op = "end" /\ calls[j].op = "location" /\ calls[k].op = "end"

\* C4: a location() whose step fails raises to its caller, appends nothing
\* and leaves terminated and the run loop as they were; after it the session
\* still takes location and end events (as long as events are delivered).
C4_FailurePropagates ==
    /\ [][ (EventStep("location") /\ last'.step = "failed") =>
               /\ calls'[Len(calls')].outcome = "raised"
               /\ locations' = locations
               /\ end' = end
               /\ runPc' = runPc ]_vars
    /\ []((last.op = "location" /\ last.step = "failed" /\ Len(calls) < MaxEvents) =>
            (ENABLED End /\ ENABLED LocationEvent))

C4_Witness ==
    \E i, j, k \in 1..Len(calls) :
        /\ Ordered(i, j, k)
        /\ calls[i].op = "location" /\ calls[i].outcome = "raised"
        /\ calls[j].op = "location" /\ calls[j].outcome = "returned"
        /\ calls[j].value # <<>>
        /\ calls[k].op = "end"
        /\ Len(locations) = 1 /\ end

\* the results of the search call, [] when it fails or its body has none
ResultsOf(search) ==
    IF search.kind = "response" /\ search.status = 200 /\ search.body.type = "object"
    THEN Get(search.body.fields, "results", <<>>)
    ELSE <<>>

\* the positions of the results the filter accepts
AcceptedAt(results, location_terms, current_year) ==
    {i \in 1..Len(results) : Accepts(results[i], location_terms, current_year)}

Min(a, b) == IF a < b THEN a ELSE b

\* C5 as stated: when the geocoding call fails (and the step completes),
\* location() returns [] and accumulated gains the entry ((lat, lng), []).
C5_EmptyOnGeoFailure ==
    (last.op = "location" /\ last.step = "completed" /\ GeoFailed(last.env)) =>
        /\ LastCall.outcome = "returned"
        /\ LastCall.value = <<>>
        /\ locations # <<>>
        /\ locations[Len(locations)] =
               [lat |-> last.lat, lng |-> last.lng, hackathons |-> <<>>]

\* C5 amended: when the geocoding call fails and the step completes,
\* location() returns without raising one record for each of the first 10
\* search results accepted against the two coordinate labels (none when the
\* search call fails), and accumulated gains exactly the entry pairing
\* (lat, lng) with the returned list.
C5_FallbackSearch ==
    [][ (EventStep("location") /\ last'.step = "completed" /\ GeoFailed(last'.env)) =>
            /\ calls'[Len(calls')].outcome = "returned"
            /\ Len(calls'[Len(calls')].value) =
                   Min(10, Cardinality(AcceptedAt(ResultsOf(last'.env.search),
                                                  {Fmt2(last'.lat), Fmt2(last'.lng)},
                                                  last'.env.year)))
            /\ SearchFailed(last'.env) => calls'[Len(calls')].value = <<>>
            /\ locations' = Append(locations,
                                   [lat |-> last'.lat, lng |-> last'.lng,
                                    hackathons |-> calls'[Len(calls')].value]) ]_vars

C5_Witness ==
    /\ last.op = "location" /\ last.step = "completed"
    /\ last.env.geo = GeoException
    /\ LastCall.outcome = "returned"
    /\ Len(LastCall.value) = 1
    /\ locations = <<[lat |-> last.lat, lng |-> last.lng, hackathons |-> LastCall.value]>>

\* the entries of the location() calls that returned, in the order of the calls
RECURSIVE Completed(_)
Completed(history) ==
    IF history = <<>> THEN <<>>
    ELSE LET c == history[Len(history)]
             before == Completed(SubSeq(history, 1, Len(history) - 1))
         IN IF c.op = "location" /\ c.outcome = "returned"
            THEN Append(before, [lat |-> c.lat, lng |-> c.lng, hackathons |-> c.value])
            ELSE before

\* C6: accumulated holds exactly one entry per location() call that returned,
\* pairing its coordinate with the list it returned, in the order of the
\* calls, whether the calls came before or after end(); end() adds nothing.
C6_Accumulated == locations = Completed(calls)

C6_Witness ==
    /\ Len(calls) = 3 /\ Len(locations) = 2
    /\ calls[1].op = "location" /\ calls[2].op = "end" /\ calls[3].op = "location"
    /\ calls[3].value # <<>>
    /\ calls[1].lat # calls[3].lat

----------------------------------------------------------------------------
(* Properties of get_location_numbers *)

Trace == fnOut.trace

\* the invocation is over and the search results went through the filter
Filtered == fnPc = "done" /\ Trace.geocoded /\ Trace.search.filtered

PastPhrases == { <<"past">>, <<"completed">>, <<"ended">>, <<"archive">> }

\* the acceptance rule as C7 states it
StatedAccepts(result, location_terms, current_year) ==
    LET title == Lower(Get(result, "title", <<>>))
        content == Content(result)
    IN /\ \E term \in location_terms : Contains(content, term)
       /\ \A generic \in GenericPhrases : ~ Contains(title, generic)
       /\ \/ Contains(content, YearStr(current_year))
          \/ Contains(content, YearStr(current_year + 1))
          \/ Contains(content, <<"upcoming">>)
          \/ Contains(content, <<"scheduled">>)
       /\ \E phrase \in RegistrationPhrases : Contains(content, phrase)
       /\ \A phrase \in PastPhrases : ~ Contains(content, phrase)

\* C7: the filter accepts a result exactly when a location term occurs in its
\* content, its title holds no generic-listing phrase, its content mentions
\* the current or next year or "upcoming"/"scheduled", holds a registration
\* phrase and holds no past-event phrase.
C7_AcceptsExactly ==
    (Filtered /\ Len(Trace.search.results) = 1) =>
        ((Trace.search.filtered_results # <<>>)
            <=> StatedAccepts(Trace.search.results[1], Trace.search.location_terms,
                              fnIn.env.year))

\* the k-th smallest element of a set of positions
Kth(positions, k) ==
    CHOOSE i \in positions : Cardinality({j \in positions : j <= i}) = k

\* C8: the filter's output is made of the first accepted results, at most 10,
\* in the order of the input, each equal to its input result but for the
\* title, and the returned event list has one record per element, in order.
C8_FilterOutput ==
    Filtered =>
        LET results == Trace.search.results
            final == Trace.value
            accepted == AcceptedAt(results, Trace.search.location_terms, fnIn.env.year)
        IN /\ Len(final) <= 10
           /\ Len(final) = Min(10, Cardinality(accepted))
           /\ \A k \in 1..Len(final) :
                 final[k] = SetItem(results[Kth(accepted, k)], "title", final[k].title)
           /\ Len(fnOut.hackathons) = Len(final)
           /\ \A k \in 1..Len(final) :
                 /\ fnOut.hackathons[k].name = final[k].title
                 /\ "snippet" \in DOMAIN final[k] =>
                        fnOut.hackathons[k].description = final[k].snippet
                 /\ fnOut.hackathons[k].date =
                        {results[Kth(accepted, k)][f] :
                            f \in {"published_date"} \cap DOMAIN results[Kth(accepted, k)]}

C8_Witness ==
    /\ Filtered
    /\ Len(Trace.search.filtered_results) > 10
    /\ Len(Trace.value) = 10
    /\ Len(fnOut.hackathons) = 10
    /\ Trace.search.results[1] = ListingPage
    /\ Trace.search.results[Len(Trace.search.results)] = SpringfieldEvent

\* the components of the place description: the parts of the address, or the
\* coordinate label when the geocoding failed
Components(place) ==
    IF place.resolved THEN ToSet(place.location_parts) ELSE {place.location_string}

\* C9: the search query holds every component of the place description
\* enclosed in double quotes.
C9_QuotedComponents ==
    (fnPc = "done" /\ Trace.geocoded) =>
        \A component \in Components(Trace.place) :
            Contains(Trace.search_query, <<Quote>> \o component \o <<Quote>>)

\* the cleaned title as C10 states it
StatedCleanTitle(title) ==
    LET at == {i \in 1..Len(title) : title[i] \in ToSet(Separators)}
    IN Strip(IF at = {} THEN title ELSE SubSeq(title, 1, Kth(at, 1) - 1))

\* C10: the cleaned title of an accepted result is the part of its title
\* before the first separator, or the whole title when it holds none,
\* trimmed of surrounding whitespace.
C10_CleanTitle ==
    (Filtered /\ Len(Trace.search.results) = 1 /\ Trace.search.filtered_results # <<>>) =>
        Trace.search.filtered_results[1].title =
            StatedCleanTitle(Get(Trace.search.results[1], "title", <<>>))

====
